---- MODULE Spec2Model ----
(***************************************************************************)
(* The metrics aggregation pipeline of stackdriver-reverse-proxy           *)
(* (src/sproxy.go): a MetricsReporter built by NewMetricsReporter, the     *)
(* goroutines that call AddEvent, Close and SetStatsReceiver on it, the    *)
(* timer loop Do, and the reportEvents goroutines Do starts.               *)
(*                                                                         *)
(* Every goroutine is a process with a program counter.  An action is a    *)
(* run of statements with at most one access to shared memory that another *)
(* goroutine can interleave with: taking mr.mu is a step of its own, and   *)
(* so are the copy and the truncation inside drainEvents; the last         *)
(* statement under the lock and the Unlock are one step.                   *)
(* mr.mu is a sync.RWMutex: Lock needs no writer and no reader, RLock      *)
(* needs no writer.  Time is not measured: the channel of                  *)
(* time.After(mr.period) is armed when the select evaluates it and becomes *)
(* ready at some later step.  A Go select whose cases are both ready takes *)
(* either.                                                                 *)
(*                                                                         *)
(* Spec is the whole system.  The claims are checked under specifications  *)
(* that keep the goroutines a claim is about: LifeSpec (buffer, Close and  *)
(* Do), SinkSpec (receiver and dispatch), SoloSpec (one caller of each     *)
(* method), LiveSpec (SoloSpec under fairness), CtorSpec (construction    *)
(* with any period), BatchSpec (reportEvents on sample batches, with the   *)
(* float64 arithmetic of the rates and the average), ProxySpec (the        *)
(* transport's RoundTrip submitting the markers), ReentrySpec (receivers   *)
(* that call the reporter) and ShutdownSpec (two callers of AddEvent       *)
(* around the return of Do).                                               *)
(***************************************************************************)
EXTENDS Integers, Sequences, FiniteSets, TLC

\* ------------------------------------------------------------ bounds
NumAdders == 2      \* goroutines that each call AddEvent once
NumClosers == 2     \* goroutines that each call Close once
NumSetters == 2     \* goroutines that each call SetStatsReceiver once
MaxWindows == 2     \* period ticks Do may take
MaxPeriod == 2      \* the periods asked for are -MaxPeriod..MaxPeriod
MaxBatch == 5       \* Events in a batch handed to reportEvents on its own
NumRequests == 2    \* requests the proxy's transport handles

\* ------------------------------------------------- program constants
defaultPeriod == 60000          \* 1 * time.Minute, in milliseconds

Adders == 1..NumAdders
\* The requests RoundTrip is called for; the goroutines the call for
\* request r starts run AddEvent as callers 2r - 1 and 2r.
Requests == 1..NumRequests
AddCallers == 1..(IF NumAdders > 2 * NumRequests THEN NumAdders ELSE 2 * NumRequests)
Closers == 1..NumClosers
Setters == 1..NumSetters

Nil == "nil"
errAlreadyClosed == "already closed"
SinkError == "sink error"
\* The functions clients register as stats receiver: the s-th caller of
\* SetStatsReceiver passes "f", "g", nil, "f", ...
SinkOf(s) == IF s % 3 = 1 THEN "f" ELSE IF s % 3 = 2 THEN "g" ELSE Nil

VARIABLES
    period,        \* mr.period
    backing,       \* the array behind mr.currentEvents, its written cells
    currentLen,    \* len(mr.currentEvents)
    mu,            \* mr.mu: [w: a writer holds it, r: number of readers]
    statsRecvFn,   \* mr.statsRecvFn
    cancelClosed,  \* cancelChan has been closed
    onceDone,      \* cancelOnce: f has run
    chanPanic,     \* close of a closed channel happened
    addPc,         \* per AddEvent caller
    addEvt,        \* per AddEvent caller: the Event it passes
    rtPc, rtOut,   \* per call of RoundTrip: position, what the forward gave
    closePc, closeErr,                \* per Close caller: position, err
    setPc, setFn,  \* per SetStatsReceiver caller
    doPc, i, drained, timer,          \* the goroutine running Do
    tasks,         \* the reportEvents goroutines, in the order Do started them
    sinkLog,       \* the calls the registered receivers got, in order
    appendLog      \* history: the Events in the order AddEvent appended them

vars == <<period, backing, currentLen, mu, statsRecvFn, cancelClosed, onceDone,
          chanPanic, addPc, addEvt, rtPc, rtOut, closePc, closeErr, setPc, setFn,
          doPc, i, drained, timer, tasks, sinkLog, appendLog>>

\* Groups of variables, for the UNCHANGED clauses.
bufVars == <<backing, currentLen, appendLog>>
cancelVars == <<cancelClosed, onceDone, chanPanic>>
closerVars == <<closePc, closeErr>>
setterVars == <<setPc, setFn>>
doVars == <<doPc, i, drained, timer>>
rtVars == <<addEvt, rtPc, rtOut>>

\* ------------------------------------------------------------ Events
\* The Event the a-th caller submits.  Callers 1 and 2 are the request and
\* the response marker of trace 1, callers 3 and 4 those of trace 2.
EventOf(a) ==
    [id |-> a,
     Request |-> (a % 2 = 1),
     StatusCode |-> IF a % 2 = 1 THEN 0 ELSE IF a % 4 = 2 THEN 200 ELSE 404,
     TraceID |-> (a + 1) \div 2,
     StartTime |-> 0,
     EndTime |-> IF a % 2 = 1 THEN 0 ELSE 100 * a,
     Err |-> Nil]

\* What the forward of a request has given: nothing yet.  The *http.Response
\* is a sequence, empty for nil and else holding the status code.
NoOutcome == [resp |-> <<>>, err |-> Nil]

\* The callers of AddEvent there are when the reporter is used without the
\* proxy: goroutines that have not yet called it, with their Events.
DirectCallers ==
    /\ addPc = [a \in AddCallers |-> IF a \in Adders THEN "idle" ELSE "nogo"]
    /\ addEvt = [a \in AddCallers |-> EventOf(a)]
    /\ rtPc = [r \in Requests |-> "notcalled"]
    /\ rtOut = [r \in Requests |-> NoOutcome]

\* mr.currentEvents as a value: the first len cells of its array.
CurrentEvents == SubSeq(backing, 1, currentLen)

\* ------------------------------------------------------ construction
\* Mutant: the period is stored as it is given.
NewMetricsReporterKeepsPeriod(p) ==
    [period |-> p, currentLen |-> 0, cancelFnSet |-> TRUE, err |-> Nil]

\* The fields of the reporter NewMetricsReporter returns, and its error
\* result.
NewMetricsReporter(p) ==
    [period |-> IF p <= 0 THEN defaultPeriod ELSE p,
     currentLen |-> 0,
     cancelFnSet |-> TRUE,
     err |-> Nil]

\* The period the client asks for, in milliseconds.
ConfiguredPeriods == {250}

Init ==
    /\ \E p \in ConfiguredPeriods : period = NewMetricsReporter(p).period
    /\ backing = <<>>
    /\ currentLen = NewMetricsReporter(0).currentLen
    /\ mu = [w |-> FALSE, r |-> 0]
    /\ statsRecvFn = Nil
    /\ cancelClosed = FALSE
    /\ onceDone = FALSE
    /\ chanPanic = FALSE
    /\ DirectCallers
    /\ closePc = [c \in Closers |-> "idle"]
    /\ closeErr = [c \in Closers |-> Nil]
    /\ setPc = [s \in Setters |-> "idle"]
    /\ setFn = [s \in Setters |-> Nil]
    /\ doPc = "notstarted"
    /\ i = 0
    /\ drained = <<>>
    /\ timer = "off"
    /\ tasks = <<>>
    /\ sinkLog = <<>>
    /\ appendLog = <<>>

\* ---------------------------------------------------------- mr.mu
\* sync.RWMutex: Lock waits for the writer and for every reader to leave,
\* RLock waits for the writer only.
CanLock(m) == ~m.w /\ m.r = 0
CanRLock(m) == ~m.w

\* ---------------------------------------------------------- AddEvent
AddEventMayLock == CanLock(mu)

\* Mutant: the Event is put in front of the pending ones.
AppendEventInFront(arr, len, e) == <<e>> \o SubSeq(arr, 1, len)

\* append(mr.currentEvents, evt): the cell after the last one is written in
\* place while the array has room (its capacity, 512, is never reached
\* within the bounds).
AppendEvent(arr, len, e) ==
    IF len < Len(arr) THEN [arr EXCEPT ![len + 1] = e] ELSE Append(arr, e)

AddEventLock(a) ==
    /\ addPc[a] = "idle"
    /\ AddEventMayLock
    /\ mu' = [mu EXCEPT !.w = TRUE]
    /\ addPc' = [addPc EXCEPT ![a] = "locked"]
    /\ UNCHANGED <<period, rtVars, bufVars, statsRecvFn, cancelVars, closerVars,
                   setterVars, doVars, tasks, sinkLog>>

\* mr.currentEvents = append(mr.currentEvents, evt); mr.mu.Unlock()
AddEventAppend(a) ==
    /\ addPc[a] = "locked"
    /\ backing' = AppendEvent(backing, currentLen, addEvt[a])
    /\ currentLen' = currentLen + 1
    /\ appendLog' = Append(appendLog, addEvt[a])
    /\ mu' = [mu EXCEPT !.w = FALSE]
    /\ addPc' = [addPc EXCEPT ![a] = "done"]
    /\ UNCHANGED <<period, rtVars, statsRecvFn, cancelVars, closerVars,
                   setterVars, doVars, tasks, sinkLog>>

\* --------------------------------------------------------- RoundTrip
\* transport.RoundTrip of the proxy, with a MetricsReporter set.  What
\* http.DefaultTransport.RoundTrip gives is a response, here its status
\* code, and no error, or no response and an error.
ForwardError == "forward error"
ForwardOutcomes ==
    {[resp |-> <<code>>, err |-> Nil] : code \in {200, 500}}
        \cup {[resp |-> <<>>, err |-> ForwardError]}

\* Mutant: the status code is taken from the response only.
ResponseStatusCodeOfResp(resp) == IF resp # <<>> THEN resp[1] ELSE 0

\* statusCode := 500; if resp != nil { statusCode = resp.StatusCode }
ResponseStatusCode(resp) == IF resp # <<>> THEN resp[1] ELSE 500

\* The Events RoundTrip builds for request r; the trace ID of its span is r.
RequestMarker(r) ==
    [id |-> 2 * r - 1, Request |-> TRUE, StatusCode |-> 0, TraceID |-> r,
     StartTime |-> 0, EndTime |-> 0, Err |-> Nil]

ResponseMarker(r, out) ==
    [id |-> 2 * r, Request |-> FALSE, StatusCode |-> ResponseStatusCode(out.resp),
     TraceID |-> r, StartTime |-> 0, EndTime |-> 100, Err |-> out.err]

\* Up to the call of the default transport: go mr.AddEvent(request marker),
\* and the deferred function is set.
RoundTripBegin(r) ==
    /\ rtPc[r] = "notcalled"
    /\ addEvt' = [addEvt EXCEPT ![2 * r - 1] = RequestMarker(r)]
    /\ addPc' = [addPc EXCEPT ![2 * r - 1] = "idle"]
    /\ rtPc' = [rtPc EXCEPT ![r] = "forward"]
    /\ UNCHANGED <<period, rtOut, bufVars, mu, statsRecvFn, cancelVars,
                   closerVars, setterVars, doVars, tasks, sinkLog>>

\* resp, err = http.DefaultTransport.RoundTrip(req)
RoundTripForward(r) ==
    /\ rtPc[r] = "forward"
    /\ \E out \in ForwardOutcomes : rtOut' = [rtOut EXCEPT ![r] = out]
    /\ rtPc' = [rtPc EXCEPT ![r] = "return"]
    /\ UNCHANGED <<period, addEvt, addPc, bufVars, mu, statsRecvFn, cancelVars,
                   closerVars, setterVars, doVars, tasks, sinkLog>>

\* return resp, err: the deferred function runs, go mr.AddEvent(response
\* marker), and RoundTrip has returned.
RoundTripReturn(r) ==
    /\ rtPc[r] = "return"
    /\ addEvt' = [addEvt EXCEPT ![2 * r] = ResponseMarker(r, rtOut[r])]
    /\ addPc' = [addPc EXCEPT ![2 * r] = "idle"]
    /\ rtPc' = [rtPc EXCEPT ![r] = "done"]
    /\ UNCHANGED <<period, rtOut, bufVars, mu, statsRecvFn, cancelVars,
                   closerVars, setterVars, doVars, tasks, sinkLog>>

\* ------------------------------------------------------------- Close
CancelFnIsNil == ~NewMetricsReporter(period).cancelFnSet

\* Mutant: a canceler without the Once, every call closes the channel.
OnceAlwaysRuns(done) == TRUE

\* cancelOnce.Do runs f when no call has run it yet.
OnceMustRun(done) == ~done

\* Close, up to the call of cancelOnce.Do inside cancelFn
\* (var err error = errAlreadyClosed).
CloseCall(c) ==
    /\ closePc[c] = "idle"
    /\ IF CancelFnIsNil
         THEN /\ closePc' = [closePc EXCEPT ![c] = "done"]
              /\ closeErr' = [closeErr EXCEPT ![c] = Nil]
         ELSE /\ closePc' = [closePc EXCEPT ![c] = "once"]
              /\ closeErr' = [closeErr EXCEPT ![c] = errAlreadyClosed]
    /\ UNCHANGED <<period, rtVars, bufVars, mu, statsRecvFn, cancelVars, addPc,
                   setterVars, doVars, tasks, sinkLog>>

\* cancelOnce.Do(f), then return err out of cancelFn and out of Close.
\* sync.Once lets one caller run f (close(cancelChan); err = nil) and makes
\* every other caller wait until f has returned: the test of its done flag,
\* f and the setting of the flag are one step.  Closing a closed channel
\* panics.
CloseOnceDo(c) ==
    /\ closePc[c] = "once"
    /\ IF OnceMustRun(onceDone)
         THEN /\ cancelClosed' = TRUE
              /\ chanPanic' = (chanPanic \/ cancelClosed)
              /\ onceDone' = TRUE
              /\ closeErr' = [closeErr EXCEPT ![c] = Nil]
         ELSE UNCHANGED <<cancelClosed, chanPanic, onceDone, closeErr>>
    /\ closePc' = [closePc EXCEPT ![c] = "done"]
    /\ UNCHANGED <<period, rtVars, bufVars, mu, statsRecvFn, addPc, setterVars,
                   doVars, tasks, sinkLog>>

\* What a call of Close has returned.
CloseResult(c) == IF closePc[c] = "done" THEN closeErr[c] ELSE "pending"

\* -------------------------------------------------- SetStatsReceiver
SetStatsReceiverLock(s) ==
    /\ setPc[s] = "idle"
    /\ CanLock(mu)
    /\ setFn' = [setFn EXCEPT ![s] = SinkOf(s)]
    /\ mu' = [mu EXCEPT !.w = TRUE]
    /\ setPc' = [setPc EXCEPT ![s] = "locked"]
    /\ UNCHANGED <<period, rtVars, bufVars, statsRecvFn, cancelVars, addPc,
                   closerVars, doVars, tasks, sinkLog>>

\* Mutant: a receiver once registered is kept.
StoreRecvFnOnce(old, new) == IF old = Nil THEN new ELSE old

\* mr.statsRecvFn = statsRecvFn
StoreRecvFn(old, new) == new

SetStatsReceiverStore(s) ==
    /\ setPc[s] = "locked"
    /\ statsRecvFn' = StoreRecvFn(statsRecvFn, setFn[s])
    /\ mu' = [mu EXCEPT !.w = FALSE]
    /\ setPc' = [setPc EXCEPT ![s] = "done"]
    /\ UNCHANGED <<period, rtVars, bufVars, cancelVars, addPc, closerVars, setFn,
                   doVars, tasks, sinkLog>>

\* ---------------------------------------------------------------- Do
\* Mutant: the counter is not incremented.
NextIterStuck(n) == n

\* Mutant: the counter skips a number.
NextIterSkips(n) == n + 2

\* i += 1 (i is a uint64; its wrap at 2^64 is out of the bounds' reach).
NextIter(n) == n + 1

\* Mutant: the stop case goes round the loop (a continue in place of the
\* return).
DoOnCancelLoops == "select"

\* Mutant: the stop case leaves the select only (a break in place of the
\* return) and Do goes on to the drain.
DoOnCancelFallsThrough == "drain"

\* What Do does on the stop signal: return.
DoOnCancel == "done"

DoStart ==
    /\ doPc = "notstarted"
    /\ doPc' = "select"
    /\ i' = 0
    /\ timer' = "armed"
    /\ UNCHANGED <<period, rtVars, bufVars, mu, statsRecvFn, cancelVars, addPc,
                   closerVars, setterVars, drained, tasks, sinkLog>>

\* The period elapses: the channel of time.After becomes ready.
TimerFire ==
    /\ timer = "armed"
    /\ timer' = "fired"
    /\ UNCHANGED <<period, rtVars, bufVars, mu, statsRecvFn, cancelVars, addPc,
                   closerVars, setterVars, doPc, i, drained, tasks, sinkLog>>

\* case <-mr.cancelChan: return
DoSelectCancel ==
    /\ doPc = "select"
    /\ cancelClosed
    /\ doPc' = DoOnCancel
    /\ timer' = IF DoOnCancel = "done" THEN "off" ELSE timer
    /\ UNCHANGED <<period, rtVars, bufVars, mu, statsRecvFn, cancelVars, addPc,
                   closerVars, setterVars, i, drained, tasks, sinkLog>>

\* case <-time.After(mr.period): then i += 1
DoSelectTimer ==
    /\ doPc = "select"
    /\ timer = "fired"
    /\ i < MaxWindows
    /\ Len(tasks) < MaxWindows
    /\ i' = NextIter(i)
    /\ timer' = "off"
    /\ doPc' = "drain"
    /\ UNCHANGED <<period, rtVars, bufVars, mu, statsRecvFn, cancelVars, addPc,
                   closerVars, setterVars, drained, tasks, sinkLog>>

\* ------------------------------------------------------- drainEvents
\* Mutant: drainEvents without mr.mu.Lock().
DrainEventsNoLock == TRUE

\* mr.mu.Lock() in drainEvents.
DrainEventsMayLock == CanLock(mu)

\* drained := make([]*Event, len(mr.currentEvents)); copy(drained, ...)
DrainedCopy(arr, len) == SubSeq(arr, 1, len)

\* Mutant: the slice is not emptied.
ResetLenKeeps(len) == len

\* mr.currentEvents = mr.currentEvents[:0]
ResetLen(len) == 0

DrainEventsLock ==
    /\ doPc = "drain"
    /\ DrainEventsMayLock
    /\ mu' = [mu EXCEPT !.w = TRUE]
    /\ doPc' = "copy"
    /\ UNCHANGED <<period, rtVars, bufVars, statsRecvFn, cancelVars, addPc,
                   closerVars, setterVars, i, drained, timer, tasks, sinkLog>>

DrainEventsCopy ==
    /\ doPc = "copy"
    /\ drained' = DrainedCopy(backing, currentLen)
    /\ doPc' = "reset"
    /\ UNCHANGED <<period, rtVars, bufVars, mu, statsRecvFn, cancelVars, addPc,
                   closerVars, setterVars, i, timer, tasks, sinkLog>>

\* mr.currentEvents = mr.currentEvents[:0]; mr.mu.Unlock(); return drained
DrainEventsReset ==
    /\ doPc = "reset"
    /\ currentLen' = ResetLen(currentLen)
    /\ mu' = [mu EXCEPT !.w = FALSE]
    /\ doPc' = "spawn"
    /\ UNCHANGED <<period, rtVars, backing, appendLog, statsRecvFn, cancelVars,
                   addPc, closerVars, setterVars, i, drained, timer, tasks,
                   sinkLog>>

\* ----------------------------------------------------------- float64
\* A natural number of any size is the sequence of its binary digits, the
\* most significant first and no zero in front (zero is the empty
\* sequence).  The arithmetic takes the digits eight at a time.
Zeros(k) == [j \in 1..k |-> 0]

StripZeros(b) ==
    LET ones == {j \in DOMAIN b : b[j] = 1}
    IN IF ones = {} THEN <<>>
       ELSE SubSeq(b, CHOOSE j \in ones : \A h \in ones : j <= h, Len(b))

\* The digits of a number below 2^30.
NatBits(n) ==
    LET len == CHOOSE l \in 0..30 : n < 2^l /\ (l = 0 \/ 2^(l - 1) <= n)
    IN [j \in 1..len |-> (n \div 2^(len - j)) % 2]

PadTo(b, n) == Zeros(n - Len(b)) \o b
PadToEights(b) == PadTo(b, 8 * ((Len(b) + 7) \div 8))

\* The value of the eight digits of b that end at position pos, and the
\* eight digits of a value below 256.
ChunkVal(b, pos) ==
    128 * b[pos - 7] + 64 * b[pos - 6] + 32 * b[pos - 5] + 16 * b[pos - 4]
      + 8 * b[pos - 3] + 4 * b[pos - 2] + 2 * b[pos - 1] + b[pos]
ChunkBits(v) == [j \in 1..8 |-> (v \div 2^(8 - j)) % 2]

\* b * k, for k below 2^22.
RECURSIVE MulFrom(_, _, _, _)
MulFrom(b, k, pos, carry) ==
    IF pos = 0 THEN NatBits(carry)
    ELSE LET s == ChunkVal(b, pos) * k + carry
         IN IF s >= 0 THEN MulFrom(b, k, pos - 8, s \div 256) \o ChunkBits(s % 256)
                      ELSE <<>>
BigMul(b, k) == LET p == PadToEights(b) IN StripZeros(MulFrom(p, k, Len(p), 0))

\* a + b
RECURSIVE AddFrom(_, _, _, _)
AddFrom(a, b, pos, carry) ==
    IF pos = 0 THEN NatBits(carry)
    ELSE LET s == ChunkVal(a, pos) + ChunkVal(b, pos) + carry
         IN IF s >= 0 THEN AddFrom(a, b, pos - 8, s \div 256) \o ChunkBits(s % 256)
                      ELSE <<>>
BigAdd(a, b) ==
    LET n == IF Len(a) > Len(b) THEN Len(a) ELSE Len(b)
        p == PadToEights(PadTo(a, n))
        q == PadToEights(PadTo(b, n))
    IN StripZeros(AddFrom(p, q, Len(p), 0))

\* a <= b
BigLeq(a, b) ==
    IF Len(a) # Len(b) THEN Len(a) < Len(b)
    ELSE LET diff == {j \in DOMAIN a : a[j] # b[j]}
         IN diff = {} \/ a[CHOOSE j \in diff : \A h \in diff : j <= h] = 0

\* a - b, for a >= b
RECURSIVE SubFrom(_, _, _, _)
SubFrom(a, b, pos, borrow) ==
    IF pos = 0 THEN <<>>
    ELSE LET s == ChunkVal(a, pos) - ChunkVal(b, pos) - borrow
         IN IF s >= 0 THEN SubFrom(a, b, pos - 8, 0) \o ChunkBits(s)
                      ELSE SubFrom(a, b, pos - 8, 1) \o ChunkBits(s + 256)
BigSub(a, b) ==
    LET p == PadToEights(a)
        q == PadTo(b, Len(p))
    IN StripZeros(SubFrom(p, q, Len(p), 0))

\* The quotient (in as many digits as b has, padded) and the remainder of
\* b by n, for n below 2^22.
RECURSIVE LongDiv(_, _, _, _)
LongDiv(b, n, pos, r) ==
    IF pos > Len(b) THEN [q |-> <<>>, r |-> r]
    ELSE LET cur == 256 * r + ChunkVal(b, pos)
             rest == LongDiv(b, n, pos + 8, cur % n)
         IN [q |-> ChunkBits(cur \div n) \o rest.q, r |-> rest.r]
BigDiv(b, n) == LET p == PadToEights(b) IN LongDiv(p, n, 8, 0)

\* The value of a number below 2^24.
SmallVal(b) ==
    LET p == PadTo(b, 24)
    IN 65536 * ChunkVal(p, 8) + 256 * ChunkVal(p, 16) + ChunkVal(p, 24)

\* A float64 that is zero or positive and normal: a significand m of
\* MantissaBits digits whose first is 1, and the exponent e of its last
\* digit; the value is m * 2^e.  Zero has no digit, and neither have NaN
\* and +Inf, which e tells apart.
MantissaBits == 53
Zero64 == [m |-> <<>>, e |-> 0]
NaN64 == [m |-> <<>>, e |-> 1]
Inf64 == [m |-> <<>>, e |-> 2]

\* The float64 nearest to bits * 2^e, plus something below 2^e when sticky;
\* ties go to the even significand.
Round64(bits, e, sticky) ==
    LET b == StripZeros(bits) IN
    IF b = <<>> THEN Zero64
    ELSE IF Len(b) <= MantissaBits
      THEN [m |-> b \o Zeros(MantissaBits - Len(b)),
            e |-> e - (MantissaBits - Len(b))]
    ELSE LET kept == SubSeq(b, 1, MantissaBits)
             guard == b[MantissaBits + 1]
             rest == sticky \/ \E j \in (MantissaBits + 2)..Len(b) : b[j] = 1
             up == guard = 1 /\ (rest \/ kept[MantissaBits] = 1)
             m1 == IF up THEN BigAdd(kept, <<1>>) ELSE kept
             e1 == e + (Len(b) - MantissaBits)
         IN IF Len(m1) > MantissaBits
              THEN [m |-> SubSeq(m1, 1, MantissaBits), e |-> e1 + 1]
              ELSE [m |-> m1, e |-> e1]

\* float64(n), for an int n from 0 to below 2^30
Float64(n) == Round64(NatBits(n), 0, FALSE)

\* x / float64(n), for an int n from 0 to below 2^22
Div64(x, n) ==
    IF x \in {NaN64, Inf64} THEN x
    ELSE IF n = 0 THEN (IF x = Zero64 THEN NaN64 ELSE Inf64)
    ELSE IF x = Zero64 THEN x
    ELSE LET extra == Len(NatBits(n)) + 2
             d == BigDiv(x.m \o Zeros(extra), n)
         IN Round64(d.q, x.e - extra, d.r # 0)

\* x * float64(k), for an int k from 1 to below 2^22
Mul64(x, k) == IF x.m = <<>> THEN x ELSE Round64(BigMul(x.m, k), x.e, FALSE)

\* x + y
Add64(x, y) ==
    IF x = Zero64 THEN y
    ELSE IF y = Zero64 THEN x
    ELSE LET e == IF x.e < y.e THEN x.e ELSE y.e
         IN Round64(BigAdd(x.m \o Zeros(x.e - e), y.m \o Zeros(y.e - e)), e, FALSE)

\* ------------------------------------------------------ reportEvents
\* Go's integer division truncates toward zero.
GoDiv(a, b) == IF a >= 0 THEN a \div b ELSE -((-a) \div b)

\* Mutant: the rate as a fraction of 1, without the factor 100.
Rate64NoPercent(count, nResponses) == Div64(Float64(count), nResponses)

\* 100.0 * (float64(count) / float64(nResponses))
Rate64(count, nResponses) == Mul64(Div64(Float64(count), nResponses), 100)

\* time.Duration.Seconds() of a duration of ms milliseconds:
\* float64(sec) + float64(nsec)/1e9 with sec the whole seconds and nsec the
\* nanoseconds left; nsec/1e9 is the quotient (ms % 1000)/1000, and the
\* division rounds the quotient.
Seconds64(ms) == Add64(Float64(ms \div 1000), Div64(Float64(ms % 1000), 1000))

\* float64(totalResponseDuration.Seconds()) / float64(nResponses)
Average64(ms, nResponses) == Div64(Seconds64(ms), nResponses)

\* Rate64 and Average64 over the counts and the total durations a batch
\* within the bounds can have, computed once.
BatchCounts == 0..MaxBatch
BatchDurations == {100 * k : k \in 0..(2 * MaxBatch)}
RateOf == [c \in BatchCounts, n \in BatchCounts |-> Rate64(c, n)]
AverageOf == [d \in BatchDurations, n \in BatchCounts |-> Average64(d, n)]

NoStats == [NRequests |-> 0, TraceIDs |-> <<>>, NthIteration |-> 0,
            RateResponseStats |-> <<>>, AverageResponseDurationSeconds |-> Zero64]

\* One turn of the loop over the events.
ReduceEvent(acc, evt) ==
    LET ids == Append(acc.traceIDs, evt.TraceID) IN
    IF evt.Request
      THEN [acc EXCEPT !.traceIDs = ids, !.nRequests = @ + 1]
      ELSE LET statusIndex == GoDiv(evt.StatusCode, 100) IN
           [acc EXCEPT
              !.traceIDs = ids,
              !.responsesCounter =
                  IF statusIndex \in DOMAIN @
                    THEN [@ EXCEPT ![statusIndex] = @ + 1]
                    ELSE @ @@ (statusIndex :> 1),
              !.nResponses = @ + 1,
              !.totalResponseDuration = @ + (evt.EndTime - evt.StartTime)]

RECURSIVE ReduceLoop(_, _, _)
ReduceLoop(acc, events, k) ==
    IF k > Len(events) THEN acc
    ELSE ReduceLoop(ReduceEvent(acc, events[k]), events, k + 1)

\* Mutant: the number of responses is used as counted.
NResponsesAsCounted(n) == n

\* if nResponses <= 0 { nResponses = 1 }
NResponsesFloored(n) == IF n <= 0 THEN 1 ELSE n

\* The InflightStats reportEvents builds; durations are in milliseconds.
ReportStats(events, nIter) ==
    LET acc == ReduceLoop([traceIDs |-> <<>>, nRequests |-> 0,
                           responsesCounter |-> <<>>, nResponses |-> 0,
                           totalResponseDuration |-> 0], events, 1)
        nResponses == NResponsesFloored(acc.nResponses)
    IN [NRequests |-> acc.nRequests,
        TraceIDs |-> acc.traceIDs,
        NthIteration |-> nIter,
        RateResponseStats |->
            [b \in DOMAIN acc.responsesCounter |->
                RateOf[acc.responsesCounter[b], nResponses]],
        AverageResponseDurationSeconds |->
            AverageOf[acc.totalResponseDuration, nResponses]]

\* go mr.reportEvents(drainedEvents, i), and back to the select, which
\* evaluates time.After(mr.period) anew.
NewTask(events, nIter) ==
    [events |-> events, nIter |-> nIter, pc |-> "reduce", stats |-> NoStats,
     recvFn |-> Nil, err |-> Nil]

\* Mutant: reportEvents is waited for (as a call would, or a go statement
\* followed by a wait for its end).
DoAfterSpawnWaits == "wait"

\* Where Do goes after the go statement: round the loop, to the select.
DoAfterSpawn == "select"

DoSpawn ==
    /\ doPc = "spawn"
    /\ tasks' = Append(tasks, NewTask(drained, i))
    /\ drained' = <<>>
    /\ doPc' = DoAfterSpawn
    /\ timer' = "armed"
    /\ UNCHANGED <<period, rtVars, bufVars, mu, statsRecvFn, cancelVars, addPc,
                   closerVars, setterVars, i, sinkLog>>

\* Mutant: drainEvents returns mr.currentEvents itself, a slice of the
\* array that AddEvent goes on writing to.
TaskEventsAliased(t) == SubSeq(backing, 1, Len(t.events))

\* The batch a reportEvents goroutine reads: the slice drainEvents made and
\* filled, with an array of its own.
TaskEvents(t) == t.events

TaskReduce(k) ==
    /\ tasks[k].pc = "reduce"
    /\ tasks' = [tasks EXCEPT ![k].stats = ReportStats(TaskEvents(tasks[k]), tasks[k].nIter),
                              ![k].pc = "send"]
    /\ UNCHANGED <<period, rtVars, bufVars, mu, statsRecvFn, cancelVars, addPc,
                   closerVars, setterVars, doVars, sinkLog>>

\* --------------------------------------------------------- sendStats
SendStatsRLock(k) ==
    /\ tasks[k].pc = "send"
    /\ CanRLock(mu)
    /\ mu' = [mu EXCEPT !.r = @ + 1]
    /\ tasks' = [tasks EXCEPT ![k].pc = "rlocked"]
    /\ UNCHANGED <<period, rtVars, bufVars, statsRecvFn, cancelVars, addPc,
                   closerVars, setterVars, doVars, sinkLog>>

\* recvFn := mr.statsRecvFn
LoadRecvFn == statsRecvFn

\* Mutant: the read lock is kept over the call of the receiver (as with
\* defer mr.mu.RUnlock()).
RUnlockDeferred(r) == r

\* mr.mu.RUnlock(), before the nil test and the call.
RUnlock(r) == r - 1

SendStatsLoad(k) ==
    /\ tasks[k].pc = "rlocked"
    /\ tasks' = [tasks EXCEPT ![k].recvFn = LoadRecvFn, ![k].pc = "call"]
    /\ mu' = [mu EXCEPT !.r = RUnlock(@)]
    /\ UNCHANGED <<period, rtVars, bufVars, statsRecvFn, cancelVars, addPc,
                   closerVars, setterVars, doVars, sinkLog>>

\* Mutant: a failed dispatch is sent again.
TaskPcAfterSendRetries(err) == IF err = SinkError THEN "send" ELSE "done"

\* What reportEvents does with the result of sendStats: nothing, it returns.
TaskPcAfterSend(err) == "done"

\* Mutant: sendStats without the nil test, the nil function is called.
RecvFnNeverNil(fn) == FALSE

\* recvFn == nil
RecvFnIsNil(fn) == fn = Nil

\* if recvFn == nil { return nil }; else the receiver is entered.
SendStatsCall(k) ==
    /\ tasks[k].pc = "call"
    /\ IF RecvFnIsNil(tasks[k].recvFn)
         THEN /\ tasks' = [tasks EXCEPT ![k].err = Nil,
                                        ![k].pc = TaskPcAfterSend(Nil)]
              /\ UNCHANGED sinkLog
         ELSE /\ sinkLog' = Append(sinkLog, [fn |-> tasks[k].recvFn,
                                             stats |-> tasks[k].stats])
              /\ tasks' = [tasks EXCEPT ![k].pc = "insink"]
    /\ UNCHANGED <<period, rtVars, bufVars, mu, statsRecvFn, cancelVars, addPc,
                   closerVars, setterVars, doVars>>

\* The receiver returns, with success or with an error; sendStats returns
\* that, and reportEvents drops it.
SinkReturn(k) ==
    /\ tasks[k].pc \in {"insink", "sinkback"}
    /\ \E res \in {Nil, SinkError} :
          tasks' = [tasks EXCEPT ![k].err = res, ![k].pc = TaskPcAfterSend(res)]
    /\ UNCHANGED <<period, rtVars, bufVars, mu, statsRecvFn, cancelVars, addPc,
                   closerVars, setterVars, doVars, sinkLog>>

\* ------------------------------- a receiver that calls the reporter
\* The receiver is the client's function; it runs on the reportEvents
\* goroutine and may call the reporter it is registered with.  Here it
\* makes at most one such call, AddEvent or SetStatsReceiver, before it
\* returns.
SinkEvent(k) ==
    [id |-> 0 - k, Request |-> TRUE, StatusCode |-> 0, TraceID |-> 0 - k,
     StartTime |-> 0, EndTime |-> 0, Err |-> Nil]

\* mr.mu.Lock() of AddEvent, called by the receiver.
SinkAddEventLock(k) ==
    /\ tasks[k].pc = "insink"
    /\ AddEventMayLock
    /\ mu' = [mu EXCEPT !.w = TRUE]
    /\ tasks' = [tasks EXCEPT ![k].pc = "sinkadd"]
    /\ UNCHANGED <<period, rtVars, bufVars, statsRecvFn, cancelVars, addPc,
                   closerVars, setterVars, doVars, sinkLog>>

SinkAddEventAppend(k) ==
    /\ tasks[k].pc = "sinkadd"
    /\ backing' = AppendEvent(backing, currentLen, SinkEvent(k))
    /\ currentLen' = currentLen + 1
    /\ appendLog' = Append(appendLog, SinkEvent(k))
    /\ mu' = [mu EXCEPT !.w = FALSE]
    /\ tasks' = [tasks EXCEPT ![k].pc = "sinkback"]
    /\ UNCHANGED <<period, rtVars, statsRecvFn, cancelVars, addPc, closerVars,
                   setterVars, doVars, sinkLog>>

\* mr.mu.Lock() of SetStatsReceiver, called by the receiver.
SinkSetStatsReceiverLock(k) ==
    /\ tasks[k].pc = "insink"
    /\ CanLock(mu)
    /\ mu' = [mu EXCEPT !.w = TRUE]
    /\ tasks' = [tasks EXCEPT ![k].pc = "sinkset"]
    /\ UNCHANGED <<period, rtVars, bufVars, statsRecvFn, cancelVars, addPc,
                   closerVars, setterVars, doVars, sinkLog>>

\* The receiver registers "g".
SinkSetStatsReceiverStore(k) ==
    /\ tasks[k].pc = "sinkset"
    /\ statsRecvFn' = StoreRecvFn(statsRecvFn, "g")
    /\ mu' = [mu EXCEPT !.w = FALSE]
    /\ tasks' = [tasks EXCEPT ![k].pc = "sinkback"]
    /\ UNCHANGED <<period, rtVars, bufVars, cancelVars, addPc, closerVars,
                   setterVars, doVars, sinkLog>>

SinkCallsNext ==
    \/ \E k \in DOMAIN tasks : SinkAddEventLock(k)
    \/ \E k \in DOMAIN tasks : SinkAddEventAppend(k)
    \/ \E k \in DOMAIN tasks : SinkSetStatsReceiverLock(k)
    \/ \E k \in DOMAIN tasks : SinkSetStatsReceiverStore(k)

\* ------------------------------------------------------------- Next
AddNext ==
    \/ \E a \in Adders : AddEventLock(a)
    \/ \E a \in Adders : AddEventAppend(a)

CloseNext ==
    \/ \E c \in Closers : CloseCall(c)
    \/ \E c \in Closers : CloseOnceDo(c)

SetNext ==
    \/ \E s \in Setters : SetStatsReceiverLock(s)
    \/ \E s \in Setters : SetStatsReceiverStore(s)

\* Do up to the stop signal.
LoopNext ==
    \/ DoStart
    \/ TimerFire
    \/ DoSelectTimer
    \/ DrainEventsLock
    \/ DrainEventsCopy
    \/ DrainEventsReset
    \/ DoSpawn

SendNext ==
    \/ \E k \in DOMAIN tasks : SendStatsRLock(k)
    \/ \E k \in DOMAIN tasks : SendStatsLoad(k)
    \/ \E k \in DOMAIN tasks : SendStatsCall(k)
    \/ \E k \in DOMAIN tasks : SinkReturn(k)

ReduceNext == \E k \in DOMAIN tasks : TaskReduce(k)

Next ==
    \/ AddNext
    \/ CloseNext
    \/ SetNext
    \/ LoopNext
    \/ DoSelectCancel
    \/ ReduceNext
    \/ SendNext

\* The whole system.
Spec == Init /\ [][Next]_vars

\* A goroutine that can run is run in the end; a select whose stop case is
\* ready again and again takes it in the end (Go picks among the ready
\* cases uniformly at random).  The clients' calls, the period timer and
\* the receiver's return are under no obligation.
DoStep ==
    \/ DoSelectTimer
    \/ DrainEventsLock
    \/ DrainEventsCopy
    \/ DrainEventsReset
    \/ DoSpawn
    \/ DoSelectCancel

Fairness ==
    /\ WF_vars(DoStep)
    /\ SF_vars(DoSelectCancel)
    /\ WF_vars(\E c \in Closers : CloseOnceDo(c))
    /\ WF_vars(\E a \in Adders : AddEventAppend(a))
    /\ WF_vars(\E s \in Setters : SetStatsReceiverStore(s))
    /\ WF_vars(\E k \in DOMAIN tasks : SendStatsLoad(k))

\* The reporter with its buffer: the callers of AddEvent and of Close, Do and
\* the reduction.  The dispatch to a receiver is left to SinkSpec.
LifeNext == AddNext \/ CloseNext \/ LoopNext \/ DoSelectCancel \/ ReduceNext
LifeSpec == Init /\ [][LifeNext]_vars

\* The reporter with its receiver: the callers of SetStatsReceiver, one
\* caller of AddEvent, Do and the reportEvents goroutines.
SinkNext ==
    \/ SetNext
    \/ AddEventLock(1)
    \/ AddEventAppend(1)
    \/ LoopNext \/ ReduceNext \/ SendNext
SinkSpec == Init /\ [][SinkNext]_vars

\* The whole reporter with one caller of each of AddEvent, Close and
\* SetStatsReceiver, without and with fairness.
SoloNext ==
    \/ AddEventLock(1)
    \/ AddEventAppend(1)
    \/ CloseCall(1)
    \/ CloseOnceDo(1)
    \/ SetStatsReceiverLock(1)
    \/ SetStatsReceiverStore(1)
    \/ LoopNext \/ DoSelectCancel \/ ReduceNext \/ SendNext
SoloSpec == Init /\ [][SoloNext]_vars
LiveSpec == SoloSpec /\ Fairness

\* SoloSpec with a second caller of AddEvent: one Event can be pending when
\* Do takes the stop signal and another be added after Do has returned.
ShutdownNext == SoloNext \/ AddEventLock(2) \/ AddEventAppend(2)
ShutdownSpec == Init /\ [][ShutdownNext]_vars

\* SoloSpec with receivers that call AddEvent or SetStatsReceiver.
ReentryNext == SoloNext \/ SinkCallsNext
ReentrySpec == Init /\ [][ReentryNext]_vars

\* The reporter from its construction on.  Before the call of
\* NewMetricsReporter, period is the argument the client passes (the
\* parameter the function overwrites), and no method can be called; the
\* call stores the field, and its error result decides whether there is a
\* reporter to go on with.
RequestedPeriods == (-MaxPeriod)..MaxPeriod

CtorInit ==
    /\ period \in RequestedPeriods
    /\ doPc = "new"
    /\ backing = <<>>
    /\ currentLen = 0
    /\ mu = [w |-> FALSE, r |-> 0]
    /\ statsRecvFn = Nil
    /\ cancelClosed = FALSE
    /\ onceDone = FALSE
    /\ chanPanic = FALSE
    /\ DirectCallers
    /\ closePc = [c \in Closers |-> "idle"]
    /\ closeErr = [c \in Closers |-> Nil]
    /\ setPc = [s \in Setters |-> "idle"]
    /\ setFn = [s \in Setters |-> Nil]
    /\ i = 0
    /\ drained = <<>>
    /\ timer = "off"
    /\ tasks = <<>>
    /\ sinkLog = <<>>
    /\ appendLog = <<>>

Construct ==
    /\ doPc = "new"
    /\ period' = NewMetricsReporter(period).period
    /\ currentLen' = NewMetricsReporter(period).currentLen
    /\ doPc' = IF NewMetricsReporter(period).err = Nil THEN "notstarted" ELSE "failed"
    /\ UNCHANGED <<rtVars, backing, appendLog, mu, statsRecvFn, cancelVars, addPc,
                   closerVars, setterVars, i, drained, timer, tasks, sinkLog>>

CtorNext ==
    \/ Construct
    \/ /\ doPc \notin {"new", "failed"}
       /\ \/ AddEventLock(1)
          \/ AddEventAppend(1)
          \/ CloseCall(1)
          \/ CloseOnceDo(1)
          \/ LoopNext \/ DoSelectCancel \/ ReduceNext
CtorSpec == CtorInit /\ [][CtorNext]_vars

\* reportEvents on a batch of its own.  Do has taken its first tick and
\* drainEvents has returned a batch: any sequence of at most MaxBatch Events
\* out of request markers and response markers of a few status codes (a
\* request marker is built with no status code, which is 0).
SampleStatusCodes == {200, 201, 404, 500, 503, 1000}

SampleEvent(code) ==
    [id |-> 0,
     Request |-> (code = 0),
     StatusCode |-> code,
     TraceID |-> code,
     StartTime |-> 0,
     EndTime |-> IF code = 0 THEN 0 ELSE 100,
     Err |-> Nil]

SampleEvents == {SampleEvent(code) : code \in SampleStatusCodes \cup {0}}

SampleBatches == UNION {[1..n -> SampleEvents] : n \in 0..MaxBatch}

BatchInit ==
    /\ period = NewMetricsReporter(defaultPeriod).period
    /\ drained \in SampleBatches
    /\ backing = drained
    /\ appendLog = drained
    /\ currentLen = 0
    /\ doPc = "spawn"
    /\ i = 1
    /\ timer = "off"
    /\ mu = [w |-> FALSE, r |-> 0]
    /\ statsRecvFn = Nil
    /\ cancelClosed = FALSE
    /\ onceDone = FALSE
    /\ chanPanic = FALSE
    /\ DirectCallers
    /\ closePc = [c \in Closers |-> "idle"]
    /\ closeErr = [c \in Closers |-> Nil]
    /\ setPc = [s \in Setters |-> "idle"]
    /\ setFn = [s \in Setters |-> Nil]
    /\ tasks = <<>>
    /\ sinkLog = <<>>

BatchNext == DoSpawn \/ ReduceNext
BatchSpec == BatchInit /\ [][BatchNext]_vars

\* The proxy: the calls of RoundTrip and the AddEvent goroutines they start.
\* No goroutine calls AddEvent before a RoundTrip has started it.
ZeroEvent ==
    [id |-> 0, Request |-> FALSE, StatusCode |-> 0, TraceID |-> 0,
     StartTime |-> 0, EndTime |-> 0, Err |-> Nil]

ProxyInit ==
    /\ period = NewMetricsReporter(defaultPeriod).period
    /\ addPc = [a \in AddCallers |-> "nogo"]
    /\ addEvt = [a \in AddCallers |-> ZeroEvent]
    /\ rtPc = [r \in Requests |-> "notcalled"]
    /\ rtOut = [r \in Requests |-> NoOutcome]
    /\ backing = <<>>
    /\ appendLog = <<>>
    /\ currentLen = 0
    /\ mu = [w |-> FALSE, r |-> 0]
    /\ statsRecvFn = Nil
    /\ cancelClosed = FALSE
    /\ onceDone = FALSE
    /\ chanPanic = FALSE
    /\ closePc = [c \in Closers |-> "idle"]
    /\ closeErr = [c \in Closers |-> Nil]
    /\ setPc = [s \in Setters |-> "idle"]
    /\ setFn = [s \in Setters |-> Nil]
    /\ doPc = "notstarted"
    /\ i = 0
    /\ drained = <<>>
    /\ timer = "off"
    /\ tasks = <<>>
    /\ sinkLog = <<>>

ProxyNext ==
    \/ \E r \in Requests : RoundTripBegin(r)
    \/ \E r \in Requests : RoundTripForward(r)
    \/ \E r \in Requests : RoundTripReturn(r)
    \/ \E a \in AddCallers : AddEventLock(a)
    \/ \E a \in AddCallers : AddEventAppend(a)
ProxySpec == ProxyInit /\ [][ProxyNext]_vars

\* ====================================================== the claims
Range(seq) == {seq[n] : n \in DOMAIN seq}

\* The batches drainEvents has returned so far, in order: those handed to a
\* reportEvents goroutine, and the one Do holds between the return of
\* drainEvents and the go statement.
Batches ==
    [k \in 1..Len(tasks) |-> tasks[k].events]
        \o (IF doPc = "spawn" THEN <<drained>> ELSE <<>>)

RECURSIVE Flatten(_)
Flatten(seqs) == IF seqs = <<>> THEN <<>> ELSE Head(seqs) \o Flatten(Tail(seqs))

\* How many times the Event of caller a occurs in a sequence of Events.
Occurrences(a, seq) == Cardinality({n \in DOMAIN seq : seq[n].id = a})

\* ---------------------------------------------------------------- C1
\* C1: no Event is lost or duplicated under concurrent AddEvent and
\* drainEvents.  An Event whose AddEvent has completed is once in the
\* drained batches and the pending buffer together, an Event not yet
\* appended is in neither, no Event is in two batches or twice in one, and
\* when drainEvents has made its copy every Event whose AddEvent has
\* completed (so every one completed before the drain began) is in that copy
\* or in an earlier batch.
C1_NoEventLostOrDuplicated ==
    LET held == Flatten(Batches) \o CurrentEvents IN
    /\ \A a \in Adders :
          Occurrences(a, held) = (IF addPc[a] = "done" THEN 1 ELSE 0)
    /\ \A a \in Adders : Occurrences(a, Flatten(Batches)) <= 1
    /\ doPc = "reset" =>
          \A a \in Adders :
              addPc[a] = "done" =>
                  EventOf(a) \in Range(drained) \cup Range(Flatten(Batches))

\* All the AddEvent calls have completed before the first drain, which
\* returned them all.
C1_Witness ==
    /\ \A a \in Adders : addPc[a] = "done"
    /\ doPc = "spawn"
    /\ i = 1
    /\ Len(drained) = NumAdders
    /\ {e.id : e \in Range(drained)} = Adders

\* ---------------------------------------------------------------- C2
\* C2: Close is idempotent.  At most one call of Close returns nil, the
\* channel is closed at most once (no close of a closed channel), a call
\* returns "already closed" only when the channel is closed, and when every
\* call has returned exactly one has returned nil.
C2_CloseIdempotent ==
    LET ok == {c \in Closers : CloseResult(c) = Nil}
        already == {c \in Closers : CloseResult(c) = errAlreadyClosed}
    IN /\ Cardinality(ok) <= 1
       /\ ~chanPanic
       /\ (ok # {} \/ already # {}) => cancelClosed
       /\ already # {} => onceDone
       /\ (\A c \in Closers : closePc[c] = "done") => Cardinality(ok) = 1
       /\ cancelClosed => \E c \in Closers : closeErr[c] = Nil /\ closePc[c] = "done"

\* Every call has returned, one with nil and the others with the error.
C2_Witness ==
    /\ \A c \in Closers : closePc[c] = "done"
    /\ \E c \in Closers : CloseResult(c) = Nil
    /\ \E c \in Closers : CloseResult(c) = errAlreadyClosed

\* ---------------------------------------------------------------- C3
\* C3, as claimed: once a call of Close has returned nil, no step of Do
\* increments the window counter, calls or runs drainEvents, or starts a
\* reportEvents goroutine.
C3_NoDrainAfterClose ==
    [][(\E c \in Closers : CloseResult(c) = Nil) =>
          /\ i' = i
          /\ Len(tasks') = Len(tasks)
          /\ doPc' \in {"drain", "copy", "reset", "spawn"} => doPc' = doPc]_vars

\* C3, amended: the stop signal ends the drains from the moment Do takes
\* it.  At a select where the stop signal is ready and the period timer is
\* not, the only step of Do is the return; and once Do has returned, the
\* window counter, the set of reportEvents goroutines and Do's position no
\* longer change and the buffer is never emptied again.
C3_NoDrainAfterStop ==
    [][/\ (doPc = "select" /\ cancelClosed /\ timer # "fired") =>
             /\ doPc' \in {"select", "done"}
             /\ i' = i
             /\ Len(tasks') = Len(tasks)
       /\ doPc = "done" =>
             /\ doPc' = "done"
             /\ i' = i
             /\ Len(tasks') = Len(tasks)
             /\ currentLen' >= currentLen]_vars

\* Do has returned on the stop signal after a drain, and an Event added
\* since is pending.
C3_Witness ==
    /\ doPc = "done"
    /\ Len(tasks) >= 1
    /\ currentLen >= 1
    /\ \E c \in Closers : CloseResult(c) = Nil

\* ---------------------------------------------------------------- C4
\* C4: Do returns only on the stop signal, and after a call of Close a
\* running Do returns in the end, whatever the reportEvents goroutines and
\* the receiver do (the receiver's return is under no fairness: a call of it
\* may never return).
C4_DoReturnsAfterClose ==
    /\ [](doPc = "done" => cancelClosed /\ \E c \in Closers : closePc[c] # "idle")
    /\ (((\E c \in Closers : closePc[c] # "idle") /\ doPc # "notstarted")
            ~> (doPc = "done"))

\* Do has returned while a reportEvents goroutine sits in a receiver call
\* that has not returned and another has not yet been reduced.
C4_Witness ==
    /\ doPc = "done"
    /\ \E k \in DOMAIN tasks : tasks[k].pc = "insink"
    /\ \E k \in DOMAIN tasks : tasks[k].pc = "reduce"

\* ---------------------------------------------------------------- C5
\* The calls in a log of receiver calls that carry window index n.
CallsIn(log, n) == {p \in DOMAIN log : log[p].stats.NthIteration = n}
CallsFor(n) == CallsIn(sinkLog, n)

\* C5: the receiver is called once per window.  No window index is
\* delivered twice; every call carries the index and the InflightStats of a
\* window Do has drained; a window whose dispatch has found a receiver
\* registered has got exactly one call, with that receiver, that window's
\* NthIteration and that window's stats, the batch being empty or not; and a
\* window whose dispatch has not got that far, or has found no receiver, has
\* got none.
C5_SinkOncePerWindow ==
    /\ \A p, q \in DOMAIN sinkLog :
          sinkLog[p].stats.NthIteration = sinkLog[q].stats.NthIteration => p = q
    /\ \A p \in DOMAIN sinkLog :
          \E k \in DOMAIN tasks :
              /\ sinkLog[p].stats.NthIteration = k
              /\ sinkLog[p].stats = ReportStats(tasks[k].events, k)
    /\ \A k \in DOMAIN tasks :
          IF tasks[k].pc \in {"insink", "done"} /\ tasks[k].recvFn # Nil
            THEN /\ Cardinality(CallsFor(k)) = 1
                 /\ \A p \in CallsFor(k) :
                       sinkLog[p] = [fn |-> tasks[k].recvFn, stats |-> tasks[k].stats]
            ELSE CallsFor(k) = {}

\* Two windows have been delivered, one with an empty batch and one with a
\* batch that holds an Event.
C5_Witness ==
    /\ Len(sinkLog) = 2
    /\ \E p, q \in DOMAIN sinkLog :
          /\ sinkLog[p].stats.TraceIDs = <<>>
          /\ sinkLog[q].stats.TraceIDs # <<>>
    /\ \A k \in 1..2 : tasks[k].pc = "done"

\* ---------------------------------------------------------------- C6
\* C6: the window index is a sequence number.  The k-th reportEvents
\* goroutine Do started carries nIter = k, Do's counter is the number of
\* drains begun, and the InflightStats reduced from the k-th batch are those
\* of that batch with NthIteration = k.
C6_WindowIndexSequence ==
    /\ \A k \in DOMAIN tasks : tasks[k].nIter = k
    /\ i = Len(tasks) + (IF doPc \in {"drain", "copy", "reset", "spawn"} THEN 1 ELSE 0)
    /\ \A k \in DOMAIN tasks :
          tasks[k].pc # "reduce" =>
              /\ tasks[k].stats.NthIteration = k
              /\ tasks[k].stats = ReportStats(Batches[k], k)

\* The second window has been reduced, from a batch that is not empty and
\* differs from the first.
C6_Witness ==
    /\ Len(tasks) >= 2
    /\ tasks[2].pc # "reduce"
    /\ tasks[2].stats.NthIteration = 2
    /\ tasks[2].events # <<>>
    /\ tasks[1].events # tasks[2].events

\* ---------------------------------------------------------------- C7
\* The number of Events appended so far, and of those in the batches
\* drainEvents has returned so far.
AppendedCount == Len(appendLog)
DrainedCount == Len(Flatten(Batches))

\* C7: drain resets state.  The buffer holds exactly the Events appended
\* since the last drain returned (so it is empty after a drain for as long
\* as no AddEvent appends), and a drain that follows a drain with no
\* AddEvent in between copies, and returns, the empty sequence.
C7_DrainResetsState ==
    /\ currentLen = AppendedCount - DrainedCount
    /\ doPc = "reset" => Len(drained) = currentLen
    /\ (doPc = "reset" /\ AppendedCount = DrainedCount) => drained = <<>>
    /\ (doPc = "spawn" /\ AppendedCount = DrainedCount) => currentLen = 0

\* A drain that returned Events has been followed, with no AddEvent in
\* between, by a drain that returned none, and the buffer is empty.
C7_Witness ==
    /\ Len(tasks) = 1
    /\ tasks[1].events # <<>>
    /\ doPc = "spawn"
    /\ drained = <<>>
    /\ AppendedCount = Len(tasks[1].events)
    /\ currentLen = 0

\* ---------------------------------------------------------------- C8
\* C8: FIFO within a window.  The drained batches, one after the other, and
\* then the pending buffer list the Events in the order AddEvent appended
\* them; and the TraceIDs of the InflightStats of a batch are the trace IDs
\* of its Events, each one, in that order.
C8_FifoOrder ==
    /\ Flatten(Batches) \o CurrentEvents = appendLog
    /\ \A k \in DOMAIN tasks :
          tasks[k].pc # "reduce" =>
              tasks[k].stats.TraceIDs =
                  [n \in 1..Len(tasks[k].events) |-> tasks[k].events[n].TraceID]

\* A batch holding the request and the response marker of one trace has
\* been reduced: its TraceIDs name the trace twice.
C8_Witness ==
    \E k \in DOMAIN tasks :
        /\ tasks[k].pc # "reduce"
        /\ Len(tasks[k].events) = 2
        /\ tasks[k].events[1].id = 2
        /\ tasks[k].events[2].id = 1
        /\ tasks[k].stats.TraceIDs = <<1, 1>>

\* ---------------------------------------------------------------- C9
\* C9: a failure of the receiver stops nothing and goes nowhere.  The
\* window whose call failed is finished and has been called exactly once (no
\* retry); Do returns on the stop signal only; while Do waits at its select
\* with a window failed, the period timer ready and no stop signal, the
\* next tick can be taken; and the calls of AddEvent and Close end as they do
\* without a failure: the Event is appended, the first Close returns nil.
C9_SinkFailureIsDropped ==
    LET failed == {k \in DOMAIN tasks : tasks[k].err = SinkError} IN
    /\ \A k \in failed : tasks[k].pc = "done" /\ Cardinality(CallsFor(tasks[k].nIter)) = 1
    /\ doPc = "done" => cancelClosed
    /\ (failed # {} /\ doPc = "select" /\ timer = "fired" /\ Len(tasks) < MaxWindows)
          => ENABLED DoSelectTimer
    /\ (failed # {} /\ addPc[1] = "done") => EventOf(1) \in Range(appendLog)
    /\ (failed # {} /\ closePc[1] = "done") => CloseResult(1) = Nil /\ cancelClosed

\* The receiver has failed for window 1, and Do has since drained and
\* dispatched window 2, which has been delivered after the failed call.
C9_Witness ==
    /\ Len(tasks) >= 2
    /\ tasks[1].err = SinkError
    /\ tasks[2].pc = "done"
    /\ tasks[2].err = Nil
    /\ Len(sinkLog) = 2
    /\ sinkLog[1].stats.NthIteration = 1
    /\ sinkLog[2].stats.NthIteration = 2

\* --------------------------------------------------------------- C10
\* C10: SetStatsReceiver replaces the receiver, safely against dispatch.  A
\* call of SetStatsReceiver stores its argument, whatever was registered,
\* and nothing else changes mr.statsRecvFn; sendStats reads the reference
\* while no SetStatsReceiver holds the lock, and takes what is registered at
\* that instant (so, after a SetStatsReceiver has returned, its argument or
\* that of a later call, never the replaced one); and the dispatch calls
\* that function, once, and no other.
C10_ReceiverReplaced ==
    [][/\ \A s \in Setters :
             (setPc[s] = "locked" /\ setPc'[s] = "done") => statsRecvFn' = setFn[s]
       /\ (\A s \in Setters : ~(setPc[s] = "locked" /\ setPc'[s] = "done"))
             => statsRecvFn' = statsRecvFn
       /\ \A k \in DOMAIN tasks :
             /\ tasks[k].pc = "rlocked" => \A s \in Setters : setPc[s] # "locked"
             /\ (tasks[k].pc = "rlocked" /\ tasks'[k].pc # "rlocked")
                   => tasks'[k].recvFn = statsRecvFn
             /\ tasks[k].pc \in {"call", "insink", "done"}
                   => tasks'[k].recvFn = tasks[k].recvFn
             /\ (tasks[k].pc = "call" /\ tasks'[k].pc # "call")
                   => /\ tasks[k].recvFn = Nil => sinkLog' = sinkLog
                      /\ tasks[k].recvFn # Nil =>
                            sinkLog' = Append(sinkLog, [fn |-> tasks[k].recvFn,
                                                        stats |-> tasks[k].stats])
             /\ tasks[k].pc # "call"
                   => CallsIn(sinkLog', tasks[k].nIter) = CallsIn(sinkLog, tasks[k].nIter)]_vars

\* "f" was registered and then replaced by "g"; a dispatch that read the
\* reference before the replacement has called "f", one that read it after
\* has called "g".
C10_Witness ==
    /\ setPc[1] = "done"
    /\ setPc[2] = "done"
    /\ statsRecvFn = "g"
    /\ Len(sinkLog) = 2
    /\ sinkLog[1].fn = "f"
    /\ sinkLog[2].fn = "g"
    /\ \E k \in DOMAIN tasks : tasks[k].recvFn = "g" /\ tasks[k].nIter = sinkLog[2].stats.NthIteration

\* --------------------------------------------------------------- C11
\* C11: with no receiver registered the dispatch is a no-op that succeeds.
\* A sendStats that has read nil has returned nil and has called nothing;
\* no call is ever made on nil; as long as nobody has registered a receiver
\* no call is made at all; and Do numbers and drains the windows all the
\* same: the k-th window carries index k and the stats of its batch, and at
\* a select whose timer is ready the next tick can be taken.
C11_NilSinkIsNoOp ==
    /\ \A k \in DOMAIN tasks :
          (tasks[k].pc = "done" /\ tasks[k].recvFn = Nil) =>
              /\ tasks[k].err = Nil
              /\ CallsFor(tasks[k].nIter) = {}
              /\ tasks[k].nIter = k
              /\ tasks[k].stats = ReportStats(tasks[k].events, k)
    /\ \A p \in DOMAIN sinkLog : sinkLog[p].fn # Nil
    /\ (statsRecvFn = Nil /\ \A s \in Setters : setPc[s] # "done") => sinkLog = <<>>
    /\ i = Len(tasks) + (IF doPc \in {"drain", "copy", "reset", "spawn"} THEN 1 ELSE 0)
    /\ (statsRecvFn = Nil /\ doPc = "select" /\ timer = "fired"
            /\ Len(tasks) < MaxWindows) => ENABLED DoSelectTimer

\* No receiver was ever registered; two windows, the second with an Event
\* in its batch, have been dispatched and have returned, and nothing was
\* called.
C11_Witness ==
    /\ statsRecvFn = Nil
    /\ setPc[1] = "idle"
    /\ Len(tasks) = 2
    /\ \A k \in 1..2 : tasks[k].pc = "done" /\ tasks[k].recvFn = Nil
    /\ tasks[2].events # <<>>
    /\ sinkLog = <<>>

\* --------------------------------------------------------------- C12
\* C12: NewMetricsReporter stores the default of one minute for a period
\* that is zero or negative and the period itself when it is positive, and
\* returns no error; so a reporter there is has a period above zero, and Do
\* never waits on a period that is not.
C12_PeriodNormalized ==
    [][/\ doPc = "new" =>
             /\ period <= 0 => period' = defaultPeriod
             /\ period > 0 => period' = period
             /\ doPc' = "notstarted"
       /\ doPc # "new" => period' = period /\ period > 0
       /\ doPc' # "failed"
       /\ timer' # "off" => period' > 0]_vars

\* Do waits on the default period, which replaced a negative one.
C12_Witness ==
    /\ doPc = "select"
    /\ timer = "armed"
    /\ period = defaultPeriod
    /\ i >= 1

\* --------------------------------------------------------------- C13
\* The response markers of a batch, their status classes, and the number of
\* response markers of a class.
ResponsesIn(events) == {n \in DOMAIN events : ~events[n].Request}
ClassesIn(events) ==
    {GoDiv(events[n].StatusCode, 100) : n \in ResponsesIn(events)}
CountIn(events, b) ==
    Cardinality({n \in ResponsesIn(events) : GoDiv(events[n].StatusCode, 100) = b})

\* How far the float64 rate is from 100 * count / nResponses: the integer
\* d with rate = (100 * count + d / 2^64) / nResponses, kept within
\* -2^24..2^24.
RateError(rate, count, nResponses) ==
    LET x == BigMul(rate.m \o Zeros(rate.e + 64), nResponses)
        y == StripZeros(NatBits(100 * count) \o Zeros(64))
        d == IF BigLeq(y, x) THEN BigSub(x, y) ELSE BigSub(y, x)
        v == IF Len(d) > 24 THEN 16777216 ELSE SmallVal(d)
    IN IF BigLeq(y, x) THEN v ELSE -v

\* RateError of the rates reportEvents computes, computed once.
RateErrorOf ==
    [c \in BatchCounts, n \in BatchCounts \ {0} |-> RateError(RateOf[c, n], c, n)]

\* The sum of the RateErrors of the rates of a batch: the rates sum to
\* (100 * responseCount + that sum / 2^64) / responseCount.
RECURSIVE SumOfRateErrors(_, _)
SumOfRateErrors(events, classes) ==
    IF classes = {} THEN 0
    ELSE LET b == CHOOSE c \in classes : TRUE
         IN RateErrorOf[CountIn(events, b), Cardinality(ResponsesIn(events))]
              + SumOfRateErrors(events, classes \ {b})

\* C13, as claimed: NRequests counts the request markers, the classes with
\* a rate are the classes StatusCode/100 that occur, each rate is exactly
\* 100 * count / responseCount, and with a response in the batch the rates
\* sum to exactly 100.
C13_RatesExact ==
    \A k \in DOMAIN tasks :
        tasks[k].pc # "reduce" =>
            LET events == tasks[k].events
                stats == tasks[k].stats
                n == Cardinality(ResponsesIn(events))
            IN /\ stats.NRequests = Cardinality({j \in DOMAIN events : events[j].Request})
               /\ DOMAIN stats.RateResponseStats = ClassesIn(events)
               /\ \A b \in ClassesIn(events) :
                     /\ stats.RateResponseStats[b] = RateOf[CountIn(events, b), n]
                     /\ RateErrorOf[CountIn(events, b), n] = 0
               /\ n >= 1 => SumOfRateErrors(events, ClassesIn(events)) = 0

\* C13, amended: NRequests counts the request markers; the classes with a
\* rate are the classes StatusCode/100 (any integer, no clamping) that
\* occur among the response markers; each rate is the float64
\* 100.0 * (float64(count) / float64(responseCount)), which is within 2^-45
\* of 100 * count / responseCount and equal to it when the responses are 1,
\* 2, 4 or 5 (as for [200, 201, 404, 500, 503], which gives 40, 20 and 40);
\* with a response in the batch the rates sum to 100 within 2^-45 for each
\* class, and to exactly 100 when every rate is exact.
C13_RatesRounded ==
    \A k \in DOMAIN tasks :
        tasks[k].pc # "reduce" =>
            LET events == tasks[k].events
                stats == tasks[k].stats
                n == Cardinality(ResponsesIn(events))
                classes == ClassesIn(events)
                sum == SumOfRateErrors(events, classes)
            IN /\ stats.NRequests = Cardinality({j \in DOMAIN events : events[j].Request})
               /\ DOMAIN stats.RateResponseStats = classes
               /\ \A b \in classes :
                     LET d == RateErrorOf[CountIn(events, b), n]
                     IN /\ stats.RateResponseStats[b] = RateOf[CountIn(events, b), n]
                        /\ d <= n * 2^19 /\ -d <= n * 2^19
                        /\ n \in {1, 2, 4, 5} => d = 0
               /\ n >= 1 =>
                     /\ sum <= Cardinality(classes) * n * 2^19
                     /\ -sum <= Cardinality(classes) * n * 2^19
                     /\ n \in {1, 2, 4, 5} => sum = 0

\* The batch of responses [200, 201, 404, 500, 503] has been reduced to the
\* rates 40 for class 2, 20 for class 4 and 40 for class 5.
C13_Witness ==
    /\ Len(tasks) = 1
    /\ tasks[1].pc # "reduce"
    /\ tasks[1].events = <<SampleEvent(200), SampleEvent(201), SampleEvent(404),
                           SampleEvent(500), SampleEvent(503)>>
    /\ tasks[1].stats.RateResponseStats =
          (2 :> Float64(40)) @@ (4 :> Float64(20)) @@ (5 :> Float64(40))

\* --------------------------------------------------------------- C14
\* C14: reducing a window with nothing to rate is not an error.  A batch
\* with no response marker gives an empty rate map and the average 0 (0
\* over the response count floored at 1), with NRequests the number of its
\* request markers; the empty batch gives NRequests = 0 and no TraceIDs
\* besides; and the average and the rates of any batch are numbers (no NaN,
\* no infinity), a rate never 0.
C14_EmptyWindowReduces ==
    \A k \in DOMAIN tasks :
        tasks[k].pc # "reduce" =>
              LET events == tasks[k].events
                  stats == tasks[k].stats
              IN /\ ResponsesIn(events) = {} =>
                       /\ stats.RateResponseStats = <<>>
                       /\ stats.AverageResponseDurationSeconds = Zero64
                       /\ stats.NRequests = Len(events)
                 /\ events = <<>> =>
                       /\ stats.NRequests = 0
                       /\ stats.TraceIDs = <<>>
                       /\ stats = [NoStats EXCEPT !.NthIteration = tasks[k].nIter]
                 /\ stats.AverageResponseDurationSeconds \notin {NaN64, Inf64}
                 /\ \A b \in DOMAIN stats.RateResponseStats :
                       stats.RateResponseStats[b] \notin {NaN64, Inf64, Zero64}

\* The empty batch of window 1 has been reduced to the zero stats.
C14_Witness ==
    /\ Len(tasks) = 1
    /\ tasks[1].events = <<>>
    /\ tasks[1].pc = "send"
    /\ tasks[1].stats.NRequests = 0
    /\ tasks[1].stats.AverageResponseDurationSeconds = Zero64
    /\ tasks[1].stats.NthIteration = 1

\* --------------------------------------------------------------- C15
\* The goroutines started so far that submit a request marker, or a
\* response marker, with trace ID r.
RequestMarkersOf(r) ==
    {a \in AddCallers : addPc[a] # "nogo" /\ addEvt[a].Request /\ addEvt[a].TraceID = r}
ResponseMarkersOf(r) ==
    {a \in AddCallers : addPc[a] # "nogo" /\ ~addEvt[a].Request /\ addEvt[a].TraceID = r}

\* C15: RoundTrip submits one request marker and one response marker for
\* every request, success or failure.  From its first step on there is one
\* request marker with the request's trace ID, once it has returned there
\* is one response marker with that trace ID and none before; the response
\* marker carries the status code of the response, or 500 and the error
\* when the forward gave no response; an AddEvent goroutine appends its
\* Event once; and every step of RoundTrip can be taken whatever the
\* AddEvent goroutines do or hold.
C15_MarkersPerRequest ==
    /\ \A r \in Requests :
          /\ Cardinality(RequestMarkersOf(r)) = (IF rtPc[r] = "notcalled" THEN 0 ELSE 1)
          /\ Cardinality(ResponseMarkersOf(r)) = (IF rtPc[r] = "done" THEN 1 ELSE 0)
          /\ \A a \in ResponseMarkersOf(r) :
                /\ rtOut[r].resp # <<>> =>
                      addEvt[a].StatusCode = rtOut[r].resp[1] /\ addEvt[a].Err = Nil
                /\ rtOut[r].resp = <<>> =>
                      /\ addEvt[a].StatusCode = 500
                      /\ addEvt[a].Err = rtOut[r].err
                      /\ addEvt[a].Err # Nil
          /\ rtPc[r] = "notcalled" => ENABLED RoundTripBegin(r)
          /\ rtPc[r] = "forward" => ENABLED RoundTripForward(r)
          /\ rtPc[r] = "return" => ENABLED RoundTripReturn(r)
    /\ \A a \in AddCallers :
          Cardinality({n \in DOMAIN appendLog : appendLog[n] = addEvt[a]})
              = (IF addPc[a] = "done" THEN 1 ELSE 0)

\* The forward of request 1 has failed and RoundTrip has returned, with
\* both of its markers submitted (the response marker with 500 and the
\* error) and neither appended yet, while an AddEvent of request 2 holds
\* the lock.
C15_Witness ==
    /\ rtPc[1] = "done"
    /\ rtOut[1].err = ForwardError
    /\ addPc[1] = "idle"
    /\ addPc[2] = "idle"
    /\ addEvt[2].StatusCode = 500
    /\ addEvt[2].Err = ForwardError
    /\ addEvt[1].TraceID = addEvt[2].TraceID
    /\ addPc[3] = "locked"

\* --------------------------------------------------------------- C16
\* C16: the dispatch does not hold up the timer loop.  Do is only ever at
\* a position of its own loop, none of which waits for a reportEvents
\* goroutine: after the go statement its next wait is scheduled (at the
\* select a timer runs or is ready), and whatever the goroutines started
\* before are doing, the go statement, the copy and the truncation can be
\* taken, the drain can start as soon as mr.mu is free, and a ready timer
\* can be taken.  (That the windows can reach the receiver out of order is
\* the reachable state of C16_Witness.)
C16_DispatchDoesNotBlockDo ==
    /\ doPc \in {"notstarted", "select", "drain", "copy", "reset", "spawn", "done"}
    /\ doPc = "select" => timer \in {"armed", "fired"}
    /\ doPc = "spawn" => ENABLED DoSpawn
    /\ doPc = "copy" => ENABLED DrainEventsCopy
    /\ doPc = "reset" => ENABLED DrainEventsReset
    /\ (doPc = "drain" /\ CanLock(mu)) => ENABLED DrainEventsLock
    /\ (doPc = "select" /\ timer = "fired" /\ Len(tasks) < MaxWindows)
          => ENABLED DoSelectTimer

\* The receiver has got the stats of window 2 and then those of window 1:
\* window 1 was still in flight when window 2 was drained and delivered.
C16_Witness ==
    /\ Len(sinkLog) = 2
    /\ sinkLog[1].stats.NthIteration = 2
    /\ sinkLog[2].stats.NthIteration = 1

\* ------------------------------------------------------------------ C17
\* The holders of mr.mu on the buffer's side (AddEvent between its Lock and
\* Unlock, drainEvents between its Lock and Unlock) and on the receiver's
\* side (SetStatsReceiver as the writer, sendStats as a reader).
BufferHolders ==
    Cardinality({a \in AddCallers : addPc[a] = "locked"})
        + (IF doPc \in {"copy", "reset"} THEN 1 ELSE 0)
SinkWriters == Cardinality({s \in Setters : setPc[s] = "locked"})
SinkReaders == Cardinality({k \in DOMAIN tasks : tasks[k].pc = "rlocked"})

\* C17: the receiver is guarded apart from the buffer: a sendStats reader
\* or a SetStatsReceiver writer never excludes AddEvent or drainEvents, so
\* while nothing on the buffer's side holds a lock a caller of AddEvent can
\* take its Lock and so can a drain that is due; and several sendStats
\* readers can hold the lock at once, with no writer among them.
C17_SinkLockIsSeparate ==
    /\ (addPc[1] = "idle" /\ BufferHolders = 0) => ENABLED AddEventLock(1)
    /\ (doPc = "drain" /\ BufferHolders = 0) => ENABLED DrainEventsLock
    /\ SinkReaders = mu.r
    /\ SinkReaders > 0 => SinkWriters = 0

\* Two sendStats readers hold mr.mu at once, and AddEvent, called now with
\* nothing on the buffer's side holding a lock, cannot take its Lock.
C17_Witness ==
    /\ SinkReaders = 2
    /\ mu.r = 2
    /\ addPc[1] = "idle"
    /\ BufferHolders = 0
    /\ ~ENABLED AddEventLock(1)

\* ------------------------------------------------------------------ C18
\* The receivers that have taken mr.mu for a call of their own.
SinkCallHolders ==
    Cardinality({k \in DOMAIN tasks : tasks[k].pc \in {"sinkadd", "sinkset"}})

\* C18: the receiver is called with no lock of the reporter held, and Do
\* waits at its select with none.  mr.mu is held by those only that are
\* between a Lock and its Unlock or an RLock and its RUnlock, never by a
\* goroutine that is in a receiver or by Do at the select; whoever holds it
\* can go on to release it without any receiver returning; and with mr.mu
\* free, AddEvent, SetStatsReceiver and a drain that is due can take it,
\* Close can run, and so can the calls of AddEvent and SetStatsReceiver a
\* receiver makes itself.
C18_SinkRunsUnlocked ==
    /\ mu.r = SinkReaders
    /\ (IF mu.w THEN 1 ELSE 0) = BufferHolders + SinkWriters + SinkCallHolders
    /\ addPc[1] = "locked" => ENABLED AddEventAppend(1)
    /\ setPc[1] = "locked" => ENABLED SetStatsReceiverStore(1)
    /\ doPc = "copy" => ENABLED DrainEventsCopy
    /\ doPc = "reset" => ENABLED DrainEventsReset
    /\ closePc[1] = "idle" => ENABLED CloseCall(1)
    /\ closePc[1] = "once" => ENABLED CloseOnceDo(1)
    /\ \A k \in DOMAIN tasks :
          /\ tasks[k].pc = "rlocked" => ENABLED SendStatsLoad(k)
          /\ tasks[k].pc = "sinkadd" => ENABLED SinkAddEventAppend(k)
          /\ tasks[k].pc = "sinkset" => ENABLED SinkSetStatsReceiverStore(k)
    /\ (~mu.w /\ mu.r = 0) =>
          /\ addPc[1] = "idle" => ENABLED AddEventLock(1)
          /\ setPc[1] = "idle" => ENABLED SetStatsReceiverLock(1)
          /\ doPc = "drain" => ENABLED DrainEventsLock
          /\ \A k \in DOMAIN tasks :
                tasks[k].pc = "insink" =>
                    /\ ENABLED SinkAddEventLock(k)
                    /\ ENABLED SinkSetStatsReceiverLock(k)

\* The receiver called for window 1 has not returned; the Event it added
\* itself has been drained into the batch of window 2, AddEvent,
\* SetStatsReceiver and Close have returned to their callers, and Do has
\* returned.
C18_Witness ==
    /\ Len(tasks) = 2
    /\ tasks[1].pc = "sinkback"
    /\ \E n \in DOMAIN tasks[2].events : tasks[2].events[n] = SinkEvent(1)
    /\ addPc[1] = "done"
    /\ setPc[1] = "done"
    /\ closePc[1] = "done"
    /\ doPc = "done"

\* ------------------------------------------------------------------ C19
\* The Events appended before the drain of window k and after the drain
\* before it, as the history of the appends has them.
WindowStart(k) == Len(Flatten([j \in 1..(k - 1) |-> tasks[j].events]))
EventsDrainedFor(k) ==
    SubSeq(appendLog, WindowStart(k) + 1, WindowStart(k) + Len(tasks[k].events))

\* C19: a drained batch is a frozen copy.  No step of any goroutine, an
\* AddEvent writing into the array of mr.currentEvents or a later drain
\* included, changes what the reportEvents goroutine of a window reads as
\* its batch, in contents or in length; what it reads is the Events that
\* were drained for its window; and the reduction it makes is the one of
\* those Events.
C19_BatchIsFrozen ==
    [][\A k \in DOMAIN tasks :
          /\ (TaskEvents(tasks[k]))' = TaskEvents(tasks[k])
          /\ TaskEvents(tasks[k]) = EventsDrainedFor(k)
          /\ (tasks[k].pc = "reduce" /\ tasks'[k].pc = "send")
                => tasks'[k].stats = ReportStats(EventsDrainedFor(k), k)]_vars

\* Window 1 has been drained with one Event and is not yet reduced; since
\* then another Event has been written into the same cell of the array and
\* been drained for window 2.
C19_Witness ==
    /\ Len(tasks) = 2
    /\ tasks[1].pc = "reduce"
    /\ Len(tasks[1].events) = 1
    /\ Len(tasks[2].events) = 1
    /\ backing[1] = tasks[2].events[1]
    /\ backing[1] # tasks[1].events[1]
    /\ Len(backing) = 1

\* ------------------------------------------------------------------ C20
\* The Events in the drained batches.
DrainedEvents == UNION {Range(tasks[k].events) : k \in DOMAIN tasks}

\* After Do has returned: the pending Events are in no batch, what has been
\* reduced and what the receivers have got is the reduction of the batches,
\* and AddEvent goes through as before.
UnreportedAfterDo ==
    doPc = "done" =>
        /\ Range(CurrentEvents) \cap DrainedEvents = {}
        /\ drained = <<>>
        /\ \A k \in DOMAIN tasks :
              tasks[k].pc # "reduce" =>
                  tasks[k].stats = ReportStats(tasks[k].events, tasks[k].nIter)
        /\ \A n \in DOMAIN sinkLog :
              \E k \in DOMAIN tasks : sinkLog[n].stats = tasks[k].stats
        /\ \A a \in {1, 2} :
              /\ (addPc[a] = "idle" /\ CanLock(mu)) => ENABLED AddEventLock(a)
              /\ addPc[a] = "locked" => ENABLED AddEventAppend(a)

\* The step by which Do takes the stop signal drains nothing, and no step
\* after it drains: the pending Events stay where they are, AddEvent puts
\* new ones behind them, and the batches stay the ones there were.
NoFinalFlush ==
    /\ (doPc = "select" /\ doPc' # "select" /\ i' = i) =>
          /\ doPc' = "done"
          /\ currentLen' = currentLen
          /\ backing' = backing
          /\ tasks' = tasks
    /\ doPc = "done" =>
          /\ doPc' = "done"
          /\ currentLen' >= currentLen
          /\ SubSeq(backing', 1, currentLen) = CurrentEvents
          /\ [k \in DOMAIN tasks' |-> tasks'[k].events]
                = [k \in DOMAIN tasks |-> tasks[k].events]

\* C20: the Events pending at shutdown are never reported.  Do returns on
\* the stop signal without a last drain; after that AddEvent still appends,
\* and neither the Events that were pending nor those added later ever
\* leave the buffer, are reduced or reach a receiver: Close flushes nothing.
C20_PendingNeverReported == []UnreportedAfterDo /\ [][NoFinalFlush]_vars

\* Do has returned, every reportEvents goroutine has ended and a receiver
\* has been called, both callers of AddEvent have returned, and both their
\* Events are in the buffer: every window reported no request.
C20_Witness ==
    /\ doPc = "done"
    /\ closePc[1] = "done"
    /\ addPc[1] = "done" /\ addPc[2] = "done"
    /\ currentLen = 2
    /\ Len(tasks) >= 1
    /\ \A k \in DOMAIN tasks : tasks[k].pc = "done"
    /\ Len(sinkLog) >= 1
    /\ \A n \in DOMAIN sinkLog : sinkLog[n].stats.NRequests = 0
====
